---------------------------- MODULE Spec2Model ----------------------------
(***************************************************************************)
(* A model of promptify/parser/parser.py: the Parser class that repairs    *)
(* truncated JSON-like text (fit, get_possible_completions,                *)
(* complete_json_object, get_combinations, find_max_length) and extracts   *)
(* complete bracketed literals from free text (extract_complete_objects).  *)
(*                                                                         *)
(* A text is a sequence of one-character strings.  A Python value is a     *)
(* record tagged by its runtime type in field t.                           *)
(***************************************************************************)
EXTENDS Integers, Sequences, FiniteSets, TLC

VARIABLES
    pc,               \* position of the running operation
    json_str,         \* fit / complete_json_object: the (shrinking) text
    text0,            \* the text the operation was called with
    completion_str,   \* complete_json_object: the suffix tried
    attempts,         \* complete_json_object: json.loads calls made so far
    outcome,          \* what the operation returned or raised
    max_completion_length,
    candidate_marks,  \* get_combinations / get_possible_completions
    should_end_mark,
    n,                \* get_combinations: maximum length
    i,                \* get_combinations: current length
    k,                \* get_combinations: index of the next product tuple
    combinations,     \* get_combinations: the list built so far
    completions,      \* get_possible_completions: parsed candidates
    data_list,        \* find_max_length: its argument
    max_length,       \* find_max_length: local max_length
    string,           \* extract_complete_objects: the scanned text
    scan,             \* extract_complete_objects: where finditer resumes
    stack,
    opening,
    start,
    object_strings,
    objects,
    evaluated,        \* extract: how many object strings the last loop has taken
    diagnostics,      \* lines printed by extract_complete_objects
    matches           \* extract: the [start, end) offsets of every match taken so far

vars == <<pc, json_str, text0, completion_str, attempts, outcome,
          max_completion_length, candidate_marks, should_end_mark, n, i, k,
          combinations, completions, data_list, max_length, string, scan,
          stack, opening, start, object_strings, objects, evaluated, diagnostics,
          matches>>

cjoVars == <<json_str, text0, completion_str, attempts>>
combVars == <<candidate_marks, should_end_mark, n, i, k, combinations>>
rankVars == <<data_list, max_length>>
fitVars == <<max_completion_length, completions>>
extractVars == <<string, scan, stack, opening, start, object_strings, objects,
                 evaluated, diagnostics, matches>>

\* the value of a variable the running operation does not use
Idle == <<>>
IdleCjo == json_str = Idle /\ text0 = Idle /\ completion_str = Idle /\ attempts = 0
IdleComb == /\ candidate_marks = Idle /\ should_end_mark = Idle /\ n = 0
            /\ i = 0 /\ k = 0 /\ combinations = Idle
IdleRank == data_list = Idle /\ max_length = 0
IdleFit == max_completion_length = 0 /\ completions = Idle
IdleExtract == /\ string = Idle /\ scan = 0 /\ stack = Idle /\ opening = Idle
               /\ start = 0 /\ object_strings = Idle /\ objects = Idle
               /\ evaluated = 0 /\ diagnostics = Idle /\ matches = Idle

-----------------------------------------------------------------------------
(* Python values *)

VInt(x) == [t |-> "int", i |-> x]
VBool(b) == [t |-> "bool", b |-> b]
VNone == [t |-> "NoneType"]
VStr(s) == [t |-> "str", s |-> s]
VList(l) == [t |-> "list", l |-> l]
VTuple(l) == [t |-> "tuple", u |-> l]
VSet(l) == [t |-> "set", e |-> l]
VDict(ks, vs) == [t |-> "dict", k |-> ks, v |-> vs]
VQuitter == [t |-> "Quitter"]

DigitChars == <<"0", "1", "2", "3", "4", "5", "6", "7", "8", "9">>
IsDigit(c) == \E d \in 1..10 : DigitChars[d] = c
DigitVal(c) == (CHOOSE d \in 1..10 : DigitChars[d] = c) - 1

NameStartChars ==
    {"a", "b", "c", "d", "e", "f", "g", "h", "i", "j", "k", "l", "m", "n", "o",
     "p", "q", "r", "s", "t", "u", "v", "w", "x", "y", "z", "_",
     "A", "B", "C", "D", "E", "F", "G", "H", "I", "J", "K", "L", "M", "N", "O",
     "P", "Q", "R", "S", "T", "U", "V", "W", "X", "Y", "Z"}
IsNameStart(c) == c \in NameStartChars
IsNameChar(c) == IsNameStart(c) \/ IsDigit(c)

\* str.strip(), the regex class \s and both parsers skip these
IsSpace(c) == c \in {" ", "\t", "\n", "\r"}

RECURSIVE Concat(_)
Concat(ss) == IF ss = <<>> THEN <<>> ELSE Head(ss) \o Concat(Tail(ss))

RECURSIVE Join(_, _)
Join(ss, sep) ==
    IF ss = <<>> THEN <<>>
    ELSE IF Len(ss) = 1 THEN ss[1]
    ELSE ss[1] \o sep \o Join(Tail(ss), sep)

Contains(s, c) == \E j \in 1..Len(s) : s[j] = c

RECURSIVE IntStr(_)
IntStr(x) == IF x < 10 THEN <<DigitChars[x + 1]>>
             ELSE IntStr(x \div 10) \o <<DigitChars[(x % 10) + 1]>>

\* repr() of a str: single quotes unless the text holds ' and no "; a
\* backslash, and the quote in use, are written after a backslash
StrRepr(s) ==
    LET q == IF Contains(s, "'") /\ ~Contains(s, "\"") THEN "\"" ELSE "'"
        esc(c) == IF c = "\\" \/ c = q THEN <<"\\", c>> ELSE <<c>>
    IN  <<q>> \o Concat([j \in 1..Len(s) |-> esc(s[j])]) \o <<q>>

RECURSIVE PyRepr(_)
PyRepr(v) ==
    CASE v.t = "int" -> IntStr(v.i)
      [] v.t = "bool" -> IF v.b THEN <<"T", "r", "u", "e">>
                         ELSE <<"F", "a", "l", "s", "e">>
      [] v.t = "NoneType" -> <<"N", "o", "n", "e">>
      [] v.t = "str" -> StrRepr(v.s)
      [] v.t = "list" ->
           <<"[">> \o Join([j \in 1..Len(v.l) |-> PyRepr(v.l[j])], <<",", " ">>)
                   \o <<"]">>
      [] v.t = "tuple" ->
           IF Len(v.u) = 1 THEN <<"(">> \o PyRepr(v.u[1]) \o <<",", ")">>
           ELSE <<"(">> \o Join([j \in 1..Len(v.u) |-> PyRepr(v.u[j])], <<",", " ">>)
                        \o <<")">>
      [] v.t = "set" ->
           IF v.e = <<>> THEN <<"s", "e", "t", "(", ")">>
           ELSE <<"{">> \o Join([j \in 1..Len(v.e) |-> PyRepr(v.e[j])], <<",", " ">>)
                        \o <<"}">>
      [] v.t = "dict" ->
           <<"{">> \o Join([j \in 1..Len(v.k) |->
                              PyRepr(v.k[j]) \o <<":", " ">> \o PyRepr(v.v[j])],
                           <<",", " ">>)
                   \o <<"}">>
      [] OTHER -> <<"U", "s", "e", " ", "e", "x", "i", "t", "(", ")", " ", "o", "r", " ",
                    "C", "t", "r", "l", "-", "D", " ", "(", "i", ".", "e", ".", " ",
                    "E", "O", "F", ")", " ", "t", "o", " ", "e", "x", "i", "t">>

-----------------------------------------------------------------------------
(* json.loads *)

RECURSIVE SkipWs(_, _)
SkipWs(s, p) == IF p <= Len(s) /\ IsSpace(s[p]) THEN SkipWs(s, p + 1) ELSE p

StartsWithAt(s, p, w) ==
    /\ p + Len(w) - 1 <= Len(s)
    /\ SubSeq(s, p, p + Len(w) - 1) = w

\* the position of the first c at or after p, or 0
RECURSIVE FindChar(_, _, _)
FindChar(s, p, c) ==
    IF p > Len(s) THEN 0
    ELSE IF s[p] = c THEN p
    ELSE FindChar(s, p + 1, c)

RECURSIVE DigitsEnd(_, _)
DigitsEnd(s, p) == IF p <= Len(s) /\ IsDigit(s[p]) THEN DigitsEnd(s, p + 1) ELSE p

RECURSIVE DigitsVal(_, _)
DigitsVal(s, acc) ==
    IF s = <<>> THEN acc ELSE DigitsVal(Tail(s), 10 * acc + DigitVal(Head(s)))

\* a text that does not parse
NoParse == [ok |-> FALSE]
JOk(v, e) == [ok |-> TRUE, v |-> v, e |-> e]

\* dict(pairs): a repeated key keeps its first position and its last value
DictPut(d, key, val) ==
    IF \E j \in 1..Len(d.k) : d.k[j] = key
    THEN LET j == CHOOSE j \in 1..Len(d.k) : d.k[j] = key
         IN  VDict(d.k, [d.v EXCEPT ![j] = val])
    ELSE VDict(Append(d.k, key), Append(d.v, val))

RECURSIVE JScanOnce(_, _)
RECURSIVE JArray(_, _, _)
RECURSIVE JObject(_, _, _)

\* json.scanner.scan_once at position p
JScanOnce(s, p) ==
    IF p > Len(s) THEN NoParse
    ELSE IF s[p] = "\"" THEN
        LET q == FindChar(s, p + 1, "\"")
        IN  IF q = 0 THEN NoParse ELSE JOk(VStr(SubSeq(s, p + 1, q - 1)), q + 1)
    ELSE IF s[p] = "{" THEN
        LET q == SkipWs(s, p + 1)
        IN  IF q <= Len(s) /\ s[q] = "}" THEN JOk(VDict(<<>>, <<>>), q + 1)
            ELSE JObject(s, q, VDict(<<>>, <<>>))
    ELSE IF s[p] = "[" THEN
        LET q == SkipWs(s, p + 1)
        IN  IF q <= Len(s) /\ s[q] = "]" THEN JOk(VList(<<>>), q + 1)
            ELSE JArray(s, q, <<>>)
    ELSE IF StartsWithAt(s, p, <<"n", "u", "l", "l">>) THEN JOk(VNone, p + 4)
    ELSE IF StartsWithAt(s, p, <<"t", "r", "u", "e">>) THEN JOk(VBool(TRUE), p + 4)
    ELSE IF StartsWithAt(s, p, <<"f", "a", "l", "s", "e">>) THEN JOk(VBool(FALSE), p + 5)
    ELSE IF s[p] = "0" THEN JOk(VInt(0), p + 1)
    ELSE IF IsDigit(s[p]) THEN
        LET q == DigitsEnd(s, p)
        IN  JOk(VInt(DigitsVal(SubSeq(s, p, q - 1), 0)), q)
    ELSE NoParse

\* json.decoder.JSONArray from the first value at p, items parsed so far
JArray(s, p, items) ==
    LET r == JScanOnce(s, p)
    IN  IF ~r.ok THEN NoParse
        ELSE LET q == SkipWs(s, r.e)
             IN  IF q > Len(s) THEN NoParse
                 ELSE IF s[q] = "]" THEN JOk(VList(Append(items, r.v)), q + 1)
                 ELSE IF s[q] = "," THEN JArray(s, SkipWs(s, q + 1), Append(items, r.v))
                 ELSE NoParse

\* json.decoder.JSONObject from the first key's quote at p
JObject(s, p, d) ==
    IF p > Len(s) \/ s[p] # "\"" THEN NoParse
    ELSE LET key == JScanOnce(s, p)
         IN  IF ~key.ok THEN NoParse
             ELSE LET c == SkipWs(s, key.e)
                  IN  IF c > Len(s) \/ s[c] # ":" THEN NoParse
                      ELSE LET r == JScanOnce(s, SkipWs(s, c + 1))
                           IN  IF ~r.ok THEN NoParse
                               ELSE LET q == SkipWs(s, r.e)
                                        d2 == DictPut(d, key.v, r.v)
                                    IN  IF q > Len(s) THEN NoParse
                                        ELSE IF s[q] = "}" THEN JOk(d2, q + 1)
                                        ELSE IF s[q] = ","
                                             THEN JObject(s, SkipWs(s, q + 1), d2)
                                        ELSE NoParse

\* json.loads(s): the value, or a JSONDecodeError (ok = FALSE)
JsonLoads(s) ==
    LET r == JScanOnce(s, SkipWs(s, 1))
    IN  IF r.ok /\ SkipWs(s, r.e) = Len(s) + 1 THEN r ELSE NoParse


-----------------------------------------------------------------------------
(* Outcomes of a call *)

NoOutcome == [kind |-> "none"]
Return(v) == [kind |-> "return", value |-> v]
Raise(exc, msg) == [kind |-> "raise", exc |-> exc, msg |-> msg]

\* the texts over an alphabet of at most len characters
AllTexts(alphabet, len) == UNION {[1..m -> alphabet] : m \in 0..len}

-----------------------------------------------------------------------------
(* get_combinations *)

NoneMark == "None"

RECURSIVE Pow(_, _)
Pow(b, e) == IF e = 0 THEN 1 ELSE b * Pow(b, e - 1)

\* the idx-th tuple (from 0) of itertools.product(marks, repeat=len): the
\* rightmost position advances fastest
ProductTuple(marks, len, idx) ==
    [j \in 1..len |-> marks[((idx \div Pow(Len(marks), len - j)) % Len(marks)) + 1]]

\* the filter looking at the first mark of the tuple instead of the last
CombKeepFirst(comb, end_mark) == ~(end_mark # NoneMark /\ comb[1] # end_mark)

\* line 100: the tuples the filter lets through
CombKeep(comb, end_mark) == ~(end_mark # NoneMark /\ comb[Len(comb)] # end_mark)

\* lines 99-102 for one length
RECURSIVE CombsOfLength(_, _, _, _)
CombsOfLength(marks, len, end_mark, idx) ==
    IF idx >= Pow(Len(marks), len) THEN <<>>
    ELSE LET comb == ProductTuple(marks, len, idx)
         IN  (IF CombKeep(comb, end_mark) THEN <<comb>> ELSE <<>>)
                 \o CombsOfLength(marks, len, end_mark, idx + 1)

\* range(1, n+1)
RECURSIVE CombsFrom(_, _, _, _)
CombsFrom(marks, len, nn, end_mark) ==
    IF len \notin 1..nn THEN <<>>
    ELSE CombsOfLength(marks, len, end_mark, 0) \o CombsFrom(marks, len + 1, nn, end_mark)

GetCombinations(marks, nn, end_mark) == CombsFrom(marks, 1, nn, end_mark)

-----------------------------------------------------------------------------
(* complete_json_object *)

CouldntFix == "Couldn't fix JSON"

\* json_str[1:], cutting at the wrong end
DropFirst(s) == SubSeq(s, 2, Len(s))

\* json_str[:-1]
DropLast(s) == SubSeq(s, 1, Len(s) - 1)

\* lines 143-152 as a function: the outcome and the json.loads calls made
RECURSIVE CompleteJsonObject(_, _, _)
CompleteJsonObject(js, comp, tries) ==
    IF js = <<>> THEN [out |-> Raise("ValueError", CouldntFix), attempts |-> tries]
    ELSE LET r == JsonLoads(js \o comp)
         IN  IF r.ok THEN [out |-> Return(r.v), attempts |-> tries + 1]
             ELSE CompleteJsonObject(DropLast(js), comp, tries + 1)

-----------------------------------------------------------------------------
(* find_max_length *)

\* len(str(element)): str() of a str is the text itself
StrLen(v) == Len(IF v.t = "str" THEN v.s ELSE PyRepr(v))

\* max(len(str(element)) for element in data_list), data_list not empty
MaxStrLen(l) == CHOOSE m \in {StrLen(l[j]) : j \in 1..Len(l)} :
                    \A j \in 1..Len(l) : StrLen(l[j]) <= m

\* next(element for element in data_list if len(str(element)) == max_length)
FirstOfLength(l, m) == l[CHOOSE j \in 1..Len(l) :
                             /\ StrLen(l[j]) = m
                             /\ \A h \in 1..(j - 1) : StrLen(l[h]) # m]

\* a descending sort that reverses ties: x goes before the elements of its key
InsertPosBeforeEqual(sorted, x) ==
    CHOOSE p \in 1..(Len(sorted) + 1) :
        /\ \A h \in 1..(p - 1) : StrLen(sorted[h]) > StrLen(x)
        /\ p <= Len(sorted) => StrLen(sorted[p]) <= StrLen(x)

\* where sorted(..., reverse=True) puts x in an already sorted list: behind
\* every element whose key is at least x's (the sort is stable)
InsertPos(sorted, x) ==
    CHOOSE p \in 1..(Len(sorted) + 1) :
        /\ \A h \in 1..(p - 1) : StrLen(sorted[h]) >= StrLen(x)
        /\ p <= Len(sorted) => StrLen(sorted[p]) < StrLen(x)

RECURSIVE SortedByLengthDesc(_, _)
SortedByLengthDesc(l, acc) ==
    IF l = <<>> THEN acc
    ELSE LET x == Head(l)
             p == InsertPos(acc, x)
         IN  SortedByLengthDesc(Tail(l),
                 SubSeq(acc, 1, p - 1) \o <<x>> \o SubSeq(acc, p, Len(acc)))

EmptyMax == "max() arg is an empty sequence"

\* lines 263-271 as a function
FindMaxLength(l) ==
    IF l = <<>> THEN Raise("ValueError", EmptyMax)
    ELSE Return([completion |-> FirstOfLength(l, MaxStrLen(l)),
                 suggestions |-> SortedByLengthDesc(l, <<>>)])


-----------------------------------------------------------------------------
(* Specification of get_combinations (lines 76-103), one loop step a time *)

MaxMarks == 2
MaxN == 3

Marks == {"}", "]"}

CombInit ==
    /\ pc = "comb"
    /\ candidate_marks \in AllTexts(Marks, MaxMarks)
    /\ n \in 0..MaxN
    /\ should_end_mark \in Marks \cup {NoneMark}
    /\ i = 1 /\ k = 0
    /\ combinations = <<>>
    /\ outcome = NoOutcome
    /\ IdleCjo /\ IdleRank /\ IdleFit /\ IdleExtract

\* lines 99-102: the next tuple of the product for length i
CombProduct ==
    /\ pc = "comb" /\ i \in 1..n
    /\ k < Pow(Len(candidate_marks), i)
    /\ LET comb == ProductTuple(candidate_marks, i, k)
       IN  combinations' = IF CombKeep(comb, should_end_mark)
                           THEN Append(combinations, comb)
                           ELSE combinations
    /\ k' = k + 1
    /\ UNCHANGED <<pc, outcome, candidate_marks, should_end_mark, n, i>>
    /\ UNCHANGED <<cjoVars, rankVars, fitVars, extractVars>>

\* line 98: the product for length i is used up
CombNextLength ==
    /\ pc = "comb" /\ i \in 1..n
    /\ k >= Pow(Len(candidate_marks), i)
    /\ i' = i + 1 /\ k' = 0
    /\ UNCHANGED <<pc, outcome, candidate_marks, should_end_mark, n, combinations>>
    /\ UNCHANGED <<cjoVars, rankVars, fitVars, extractVars>>

\* line 103
CombReturn ==
    /\ pc = "comb" /\ i \notin 1..n
    /\ pc' = "done"
    /\ outcome' = Return(combinations)
    /\ UNCHANGED <<combVars, cjoVars, rankVars, fitVars, extractVars>>

CombNext == CombProduct \/ CombNextLength \/ CombReturn

SpecCombinations == CombInit /\ [][CombNext]_vars

-----------------------------------------------------------------------------
(* Specification of complete_json_object (lines 105-152) *)

MaxTextLen == 3

CjoAlphabet == {"{", "}", "[", "]", "\"", "1", ","}

\* '{"a": 1, "b": 2' and '{"a": 1, "b": 2}}}', the docstring's examples
DocText == <<"{", "\"", "a", "\"", ":", " ", "1", ",", " ",
             "\"", "b", "\"", ":", " ", "2">>
CjoExamples == {DocText, DocText \o <<"}", "}", "}">>, <<"{", "\"", "a", "\"", ":", "1", ",">>}

\* the completion strings tried: none, and every closing string of length 1 and 2
Suffixes == AllTexts(Marks, 2)

CjoInit ==
    /\ pc = "cjo"
    /\ text0 \in AllTexts(CjoAlphabet, MaxTextLen) \cup CjoExamples
    /\ json_str = text0
    /\ completion_str \in Suffixes
    /\ attempts = 0
    /\ outcome = NoOutcome
    /\ IdleComb /\ IdleRank /\ IdleFit /\ IdleExtract

\* lines 144-145
CjoRaise ==
    /\ pc = "cjo" /\ json_str = <<>>
    /\ pc' = "done"
    /\ outcome' = Raise("ValueError", CouldntFix)
    /\ UNCHANGED <<cjoVars, combVars, rankVars, fitVars, extractVars>>

\* lines 146-151: json.loads raises JSONDecodeError
CjoDecodeError ==
    /\ pc = "cjo" /\ json_str # <<>>
    /\ ~JsonLoads(json_str \o completion_str).ok
    /\ json_str' = DropLast(json_str)
    /\ attempts' = attempts + 1
    /\ UNCHANGED <<pc, outcome, text0, completion_str>>
    /\ UNCHANGED <<combVars, rankVars, fitVars, extractVars>>

\* lines 146-148 and 152: json.loads succeeds
CjoReturn ==
    /\ pc = "cjo" /\ json_str # <<>>
    /\ LET r == JsonLoads(json_str \o completion_str)
       IN  r.ok /\ outcome' = Return(r.v)
    /\ attempts' = attempts + 1
    /\ pc' = "done"
    /\ UNCHANGED <<json_str, text0, completion_str>>
    /\ UNCHANGED <<combVars, rankVars, fitVars, extractVars>>

CjoNext == CjoRaise \/ CjoDecodeError \/ CjoReturn

SpecComplete == CjoInit /\ [][CjoNext]_vars

-----------------------------------------------------------------------------
(* Specification of find_max_length (lines 243-271) *)

MaxListLen == 3

\* candidates whose renderings are 1, 2, 2, 2 and 3 characters long
RankValues == {VInt(1), VList(<<>>), VDict(<<>>, <<>>), VStr(<<"a", "b">>),
               VList(<<VInt(1)>>)}

RankInit ==
    /\ pc = "rank"
    /\ data_list \in AllTexts(RankValues, MaxListLen)
    /\ max_length = 0
    /\ outcome = NoOutcome
    /\ IdleCjo /\ IdleComb /\ IdleFit /\ IdleExtract

\* line 263 on an empty list: max() raises
RankEmpty ==
    /\ pc = "rank" /\ data_list = <<>>
    /\ pc' = "done"
    /\ outcome' = FindMaxLength(data_list)
    /\ UNCHANGED <<rankVars, cjoVars, combVars, fitVars, extractVars>>

\* line 263
RankMax ==
    /\ pc = "rank" /\ data_list # <<>>
    /\ max_length' = MaxStrLen(data_list)
    /\ pc' = "rank_build"
    /\ UNCHANGED <<outcome, data_list, cjoVars, combVars, fitVars, extractVars>>

\* lines 267-271
RankBuild ==
    /\ pc = "rank_build"
    /\ outcome' = Return([completion |-> FirstOfLength(data_list, max_length),
                          suggestions |-> SortedByLengthDesc(data_list, <<>>)])
    /\ pc' = "done"
    /\ UNCHANGED <<rankVars, cjoVars, combVars, fitVars, extractVars>>

RankNext == RankEmpty \/ RankMax \/ RankBuild

SpecRank == RankInit /\ [][RankNext]_vars
-----------------------------------------------------------------------------
(* Claims about get_combinations, complete_json_object and find_max_length *)

IsDistinct(s) == \A a, b \in 1..Len(s) : a # b => s[a] # s[b]
Prefix(s, len) == SubSeq(s, 1, len)

\* index tuple a comes before index tuple b in the Cartesian-product order
ProductOrderLess(a, b) ==
    \E j \in 1..Len(a) : /\ \A h \in 1..(j - 1) : a[h] = b[h]
                         /\ a[j] < b[j]

\* C9: get_combinations returns exactly the strings over the marks of each
\* length 1..n whose last character is the end mark (any last character when
\* no end mark is given), each once when the marks are distinct, shorter
\* strings before longer ones and, within one length, in the Cartesian-product
\* order of the mark list; an empty mark list gives no strings.
C9_CombinationsExact ==
    pc = "done" =>
      /\ outcome.kind = "return"
      /\ LET res == outcome.value
             marks == candidate_marks
             wanted(t) == should_end_mark = NoneMark \/ t[Len(t)] = should_end_mark
             image(t) == [j \in 1..Len(t) |-> marks[t[j]]]
         IN  /\ \A p \in 1..Len(res) : Len(res[p]) \in 1..n
             /\ \A p, q \in 1..Len(res) : p < q => Len(res[p]) <= Len(res[q])
             /\ \A len \in 1..n :
                  LET ofLen(t) == Len(t) = len
                      block == SelectSeq(res, ofLen)
                      tuples == {t \in [1..len -> 1..Len(marks)] : wanted(image(t))}
                      place(t) == 1 + Cardinality({u \in tuples : ProductOrderLess(u, t)})
                  IN  /\ Len(block) = Cardinality(tuples)
                      /\ \A t \in tuples : block[place(t)] = image(t)
             /\ IsDistinct(marks) => IsDistinct(res)
             /\ marks = <<>> => res = <<>>

\* get_combinations(['}', ']'], 2, ']') has returned [']', '}]', ']]']
C9_Witness ==
    /\ pc = "done"
    /\ candidate_marks = <<"}", "]">> /\ n = 2 /\ should_end_mark = "]"
    /\ outcome = Return(<< <<"]">>, <<"}", "]">>, <<"]", "]">> >>)

\* C4: complete_json_object makes at most len(text)+1 parse attempts, drops
\* exactly one trailing character per failed attempt, ends by returning or
\* raising, returns only the parse of (a non-empty prefix of the
\* text) + suffix, and raises "Couldn't fix JSON" when no non-empty prefix
\* with the suffix parses.
C4_TruncatingCompleter ==
    /\ attempts <= Len(text0) + 1
    /\ pc = "cjo" => json_str = Prefix(text0, Len(text0) - attempts)
    /\ pc = "done" =>
          /\ outcome.kind = "return" =>
                \E len \in 1..Len(text0) :
                    /\ len = Len(text0) - (attempts - 1)
                    /\ JsonLoads(Prefix(text0, len) \o completion_str).ok
                    /\ outcome.value = JsonLoads(Prefix(text0, len) \o completion_str).v
          /\ (\A len \in 1..Len(text0) :
                  ~JsonLoads(Prefix(text0, len) \o completion_str).ok)
                => outcome = Raise("ValueError", CouldntFix)
          /\ outcome.kind \in {"return", "raise"}

\* a text was cut back at least once before text + suffix parsed
C4_Witness ==
    /\ pc = "done" /\ outcome.kind = "return"
    /\ attempts > 1 /\ Len(json_str) < Len(text0)

\* C5: for a non-empty list find_max_length returns suggestions that is the
\* list sorted non-increasing by len(str(element)), elements of equal length
\* in their encounter order, and completion = suggestions[0], whose rendering
\* is at least as long as every suggestion's.
C5_RankingCorrect ==
    (pc = "done" /\ data_list # <<>>) =>
      /\ outcome.kind = "return"
      /\ LET sug == outcome.value.suggestions
             N == Len(data_list)
         IN  /\ Len(sug) = N
             /\ \E f \in [1..N -> 1..N] :
                    /\ \A a, b \in 1..N : a # b => f[a] # f[b]
                    /\ \A a \in 1..N : sug[a] = data_list[f[a]]
                    /\ \A a, b \in 1..N : a < b =>
                           /\ StrLen(sug[a]) >= StrLen(sug[b])
                           /\ StrLen(sug[a]) = StrLen(sug[b]) => f[a] < f[b]
             /\ outcome.value.completion = sug[1]
             /\ \A a \in 1..N : StrLen(outcome.value.completion) >= StrLen(sug[a])

\* a list with two different candidates of equal length that sorting reordered
C5_Witness ==
    /\ pc = "done" /\ outcome.kind = "return"
    /\ \E a, b \in 1..Len(data_list) :
          /\ a < b /\ data_list[a] # data_list[b]
          /\ StrLen(data_list[a]) = StrLen(data_list[b])
    /\ outcome.value.suggestions # data_list
-----------------------------------------------------------------------------
(* Python expressions: the tokens, the syntax tree and the two evaluators    *)
(* the program uses, eval (line 218) and ast.literal_eval (line 319).        *)
(* The texts of the model are made of digits, double-quoted strings, names,  *)
(* blanks and the marks { } [ ] ( ) , : so the grammar below is the part of  *)
(* Python's that such texts can reach: displays, subscripts, slices, calls   *)
(* and tuples.  No text holds a backslash, a line break, an operator, a      *)
(* keyword, or a name directly followed by a quote.                          *)

\* A token is a number or a string with its value v, a name with its text id,
\* or one of the marks { } [ ] ( ) , : as c.

RECURSIVE NameEnd(_, _)
NameEnd(s, p) == IF p <= Len(s) /\ IsNameChar(s[p]) THEN NameEnd(s, p + 1) ELSE p

\* the string literal opened by q (three of them when triple) whose body starts
\* at p: its value and the position after its closing quotes.  After a
\* backslash, \ ' and " stand for themselves; before a mark or a blank the
\* backslash stays (escapes led by a letter or a digit are not modelled: no
\* text of the specifications spells one).
RECURSIVE ScanStr(_, _, _, _, _)
ScanStr(s, p, q, triple, acc) ==
    IF p > Len(s) THEN [ok |-> FALSE]
    ELSE IF s[p] = "\\" THEN
        IF p + 1 > Len(s) THEN [ok |-> FALSE]
        ELSE ScanStr(s, p + 2, q, triple,
                     acc \o (IF s[p + 1] \in {"\\", "'", "\""} THEN <<s[p + 1]>>
                             ELSE <<"\\", s[p + 1]>>))
    ELSE IF triple /\ StartsWithAt(s, p, <<q, q, q>>)
         THEN [ok |-> TRUE, val |-> acc, p |-> p + 3]
    ELSE IF ~triple /\ s[p] = q THEN [ok |-> TRUE, val |-> acc, p |-> p + 1]
    ELSE ScanStr(s, p + 1, q, triple, Append(acc, s[p]))

\* the tokens of s from position p on
RECURSIVE Tokenize(_, _, _)
Tokenize(s, p, acc) ==
    IF p > Len(s) THEN [ok |-> TRUE, toks |-> acc]
    ELSE IF s[p] \in {" ", "\t"} THEN Tokenize(s, p + 1, acc)
    ELSE IF IsDigit(s[p]) THEN
        LET q == DigitsEnd(s, p)
            val == DigitsVal(SubSeq(s, p, q - 1), 0)
        IN  IF q <= Len(s) /\ IsNameStart(s[q]) THEN NoParse
            ELSE IF s[p] = "0" /\ val # 0 THEN NoParse
            ELSE Tokenize(s, q, Append(acc, [k |-> "num", v |-> VInt(val)]))
    ELSE IF s[p] \in {"\"", "'"} THEN
        LET triple == StartsWithAt(s, p, <<s[p], s[p], s[p]>>)
            r == ScanStr(s, IF triple THEN p + 3 ELSE p + 1, s[p], triple, <<>>)
        IN  IF ~r.ok THEN NoParse
            ELSE Tokenize(s, r.p, Append(acc, [k |-> "str", v |-> VStr(r.val)]))
    ELSE IF IsNameStart(s[p]) THEN
        LET q == NameEnd(s, p)
        IN  Tokenize(s, q, Append(acc, [k |-> "name", id |-> SubSeq(s, p, q - 1)]))
    ELSE IF s[p] \in {"{", "}", "[", "]", "(", ")", ",", ":"}
         THEN Tokenize(s, p + 1, Append(acc, [k |-> "op", c |-> s[p]]))
    ELSE NoParse

(* Syntax trees *)
Const(v) == [n |-> "Const", v |-> v]
Name(id) == [n |-> "Name", id |-> id]
ListNode(elts) == [n |-> "List", elts |-> elts]
TupleNode(elts) == [n |-> "Tuple", elts |-> elts]
SetNode(elts) == [n |-> "Set", elts |-> elts]
DictNode(ks, vs) == [n |-> "Dict", keys |-> ks, values |-> vs]
Subscript(v, sl) == [n |-> "Subscript", value |-> v, slice |-> sl]
SliceNode(lo, hi, st) == [n |-> "Slice", lower |-> lo, upper |-> hi, step |-> st]
Call(f, args) == [n |-> "Call", func |-> f, args |-> args]
Absent == [n |-> "Absent"]

POk(node, p) == [ok |-> TRUE, node |-> node, p |-> p]

IsOp(toks, p, c) == p <= Len(toks) /\ toks[p].k = "op" /\ toks[p].c = c

\* the literal of adjacent string tokens starting at p, and where it ends
RECURSIVE StrRun(_, _, _)
StrRun(toks, p, acc) ==
    IF p <= Len(toks) /\ toks[p].k = "str"
    THEN StrRun(toks, p + 1, acc \o toks[p].v.s)
    ELSE POk(Const(VStr(acc)), p)

NameNode(id) ==
    IF id = <<"N", "o", "n", "e">> THEN Const(VNone)
    ELSE IF id = <<"T", "r", "u", "e">> THEN Const(VBool(TRUE))
    ELSE IF id = <<"F", "a", "l", "s", "e">> THEN Const(VBool(FALSE))
    ELSE Name(id)

\* The grammar's rules call one another through Parse, which takes the rule's
\* name and, in a, what the rule needs besides the tokens and the position.
RECURSIVE Parse(_, _, _, _)

\* expression (, expression)* [,] up to the closing mark; closer "" is the
\* end of the text.  comma tells whether a comma was seen.
ItemsRule(toks, p, closer, acc) ==
    LET r == Parse("test", toks, p, <<>>)
        atEnd(q) == IF closer = "" THEN q > Len(toks) ELSE IsOp(toks, q, closer)
        after(q) == IF closer = "" THEN q ELSE q + 1
    IN  IF ~r.ok THEN NoParse
        ELSE IF atEnd(r.p)
             THEN [ok |-> TRUE, items |-> Append(acc, r.node), p |-> after(r.p),
                   comma |-> acc # <<>>]
        ELSE IF ~IsOp(toks, r.p, ",") THEN NoParse
        ELSE IF atEnd(r.p + 1)
             THEN [ok |-> TRUE, items |-> Append(acc, r.node), p |-> after(r.p + 1),
                   comma |-> TRUE]
        ELSE Parse("items", toks, r.p + 1,
                   [closer |-> closer, acc |-> Append(acc, r.node)])

\* key : value (, key : value)* [,] } with the first key at p
DictItemsRule(toks, p, ks, vs) ==
    LET key == Parse("test", toks, p, <<>>)
    IN  IF ~key.ok \/ ~IsOp(toks, key.p, ":") THEN NoParse
        ELSE LET val == Parse("test", toks, key.p + 1, <<>>)
                 ks2 == Append(ks, key.node)
             IN  IF ~val.ok THEN NoParse
                 ELSE LET vs2 == Append(vs, val.node)
                      IN  IF IsOp(toks, val.p, "}") THEN POk(DictNode(ks2, vs2), val.p + 1)
                          ELSE IF ~IsOp(toks, val.p, ",") THEN NoParse
                          ELSE IF IsOp(toks, val.p + 1, "}")
                               THEN POk(DictNode(ks2, vs2), val.p + 2)
                          ELSE Parse("dict", toks, val.p + 1, [ks |-> ks2, vs |-> vs2])

\* one subscript: an expression, or [lower] : [upper] [: [step]]
SliceItemRule(toks, p) ==
    LET stops(q) == q > Len(toks) \/ IsOp(toks, q, ":") \/ IsOp(toks, q, ",")
                       \/ IsOp(toks, q, "]")
        opt(q) == IF stops(q) THEN POk(Absent, q) ELSE Parse("test", toks, q, <<>>)
        lo == opt(p)
    IN  IF ~lo.ok THEN NoParse
        ELSE IF ~IsOp(toks, lo.p, ":")
             THEN (IF lo.node = Absent THEN NoParse ELSE lo)
        ELSE LET hi == opt(lo.p + 1)
             IN  IF ~hi.ok THEN NoParse
                 ELSE IF ~IsOp(toks, hi.p, ":")
                      THEN POk(SliceNode(lo.node, hi.node, Absent), hi.p)
                 ELSE LET st == opt(hi.p + 1)
                      IN  IF ~st.ok THEN NoParse
                          ELSE POk(SliceNode(lo.node, hi.node, st.node), st.p)

\* subscript (, subscript)* [,] ]
SubscriptsRule(toks, p, acc, comma) ==
    LET r == Parse("slice", toks, p, <<>>)
    IN  IF ~r.ok THEN NoParse
        ELSE LET items == Append(acc, r.node)
                 done(q) == POk(IF comma \/ q > r.p THEN TupleNode(items) ELSE r.node,
                                q + 1)
             IN  IF IsOp(toks, r.p, "]") THEN done(r.p)
                 ELSE IF ~IsOp(toks, r.p, ",") THEN NoParse
                 ELSE IF IsOp(toks, r.p + 1, "]") THEN done(r.p + 1)
                 ELSE Parse("subscripts", toks, r.p + 1, [acc |-> items, comma |-> TRUE])

AtomRule(toks, p) ==
    IF p > Len(toks) THEN NoParse
    ELSE LET tok == toks[p]
         IN  IF tok.k = "num" THEN POk(Const(tok.v), p + 1)
             ELSE IF tok.k = "str" THEN StrRun(toks, p, <<>>)
             ELSE IF tok.k = "name" THEN POk(NameNode(tok.id), p + 1)
             ELSE IF tok.c = "[" THEN
                 IF IsOp(toks, p + 1, "]") THEN POk(ListNode(<<>>), p + 2)
                 ELSE LET r == Parse("items", toks, p + 1, [closer |-> "]", acc |-> <<>>])
                      IN  IF r.ok THEN POk(ListNode(r.items), r.p) ELSE NoParse
             ELSE IF tok.c = "(" THEN
                 IF IsOp(toks, p + 1, ")") THEN POk(TupleNode(<<>>), p + 2)
                 ELSE LET r == Parse("items", toks, p + 1, [closer |-> ")", acc |-> <<>>])
                      IN  IF ~r.ok THEN NoParse
                          ELSE IF r.comma THEN POk(TupleNode(r.items), r.p)
                          ELSE POk(r.items[1], r.p)
             ELSE IF tok.c = "{" THEN
                 IF IsOp(toks, p + 1, "}") THEN POk(DictNode(<<>>, <<>>), p + 2)
                 ELSE LET first == Parse("test", toks, p + 1, <<>>)
                      IN  IF ~first.ok THEN NoParse
                          ELSE IF IsOp(toks, first.p, ":")
                               THEN Parse("dict", toks, p + 1, [ks |-> <<>>, vs |-> <<>>])
                          ELSE LET r == Parse("items", toks, p + 1,
                                              [closer |-> "}", acc |-> <<>>])
                               IN  IF r.ok THEN POk(SetNode(r.items), r.p) ELSE NoParse
             ELSE NoParse

\* the subscripts and calls that follow a primary
TrailersRule(toks, p, node) ==
    IF IsOp(toks, p, "[") THEN
        LET r == Parse("subscripts", toks, p + 1, [acc |-> <<>>, comma |-> FALSE])
        IN  IF r.ok
            THEN Parse("trailers", toks, r.p, [node |-> Subscript(node, r.node)])
            ELSE NoParse
    ELSE IF IsOp(toks, p, "(") THEN
        IF IsOp(toks, p + 1, ")")
        THEN Parse("trailers", toks, p + 2, [node |-> Call(node, <<>>)])
        ELSE LET r == Parse("items", toks, p + 1, [closer |-> ")", acc |-> <<>>])
             IN  IF r.ok
                 THEN Parse("trailers", toks, r.p, [node |-> Call(node, r.items)])
                 ELSE NoParse
    ELSE POk(node, p)

TestRule(toks, p) ==
    LET a == Parse("atom", toks, p, <<>>)
    IN  IF a.ok THEN Parse("trailers", toks, a.p, [node |-> a.node]) ELSE NoParse

Parse(rule, toks, p, a) ==
    CASE rule = "test" -> TestRule(toks, p)
      [] rule = "atom" -> AtomRule(toks, p)
      [] rule = "trailers" -> TrailersRule(toks, p, a.node)
      [] rule = "items" -> ItemsRule(toks, p, a.closer, a.acc)
      [] rule = "dict" -> DictItemsRule(toks, p, a.ks, a.vs)
      [] rule = "subscripts" -> SubscriptsRule(toks, p, a.acc, a.comma)
      [] rule = "slice" -> SliceItemRule(toks, p)

\* compile(text, mode="eval"): the tree, or a SyntaxError (ok = FALSE)
PyParse(s) ==
    LET t == Tokenize(s, 1, <<>>)
    IN  IF ~t.ok \/ t.toks = <<>> THEN NoParse
        ELSE LET r == Parse("items", t.toks, 1, [closer |-> "", acc |-> <<>>])
             IN  IF ~r.ok THEN NoParse
                 ELSE IF r.comma THEN POk(TupleNode(r.items), r.p)
                 ELSE POk(r.items[1], r.p)

(* Evaluation *)
EvOk(v) == [r |-> "ok", v |-> v]
EvExc(exc) == [r |-> "exc", exc |-> exc]
\* SystemExit is a BaseException, not an Exception
EvExit == [r |-> "exit", exc |-> "SystemExit"]

IsIntLike(v) == v.t \in {"int", "bool"}
Num(v) == IF v.t = "bool" THEN (IF v.b THEN 1 ELSE 0) ELSE v.i

RECURSIVE Hashable(_)
Hashable(v) ==
    \/ v.t \in {"int", "bool", "NoneType", "str", "Quitter"}
    \/ v.t = "tuple" /\ \A j \in 1..Len(v.u) : Hashable(v.u[j])

\* == on hashable values: True == 1, tuples by their elements
RECURSIVE PyEq(_, _)
PyEq(a, b) ==
    IF IsIntLike(a) /\ IsIntLike(b) THEN Num(a) = Num(b)
    ELSE IF a.t = "tuple" /\ b.t = "tuple"
         THEN /\ Len(a.u) = Len(b.u)
              /\ \A j \in 1..Len(a.u) : PyEq(a.u[j], b.u[j])
    ELSE a = b

SetAdd(elems, v) ==
    IF \E j \in 1..Len(elems) : PyEq(elems[j], v) THEN elems ELSE Append(elems, v)

\* d[key] = val: a key already there keeps its place and takes the new value
PyDictPut(d, key, val) ==
    IF \E j \in 1..Len(d.k) : PyEq(d.k[j], key)
    THEN LET j == CHOOSE j \in 1..Len(d.k) : PyEq(d.k[j], key)
         IN  VDict(d.k, [d.v EXCEPT ![j] = val])
    ELSE VDict(Append(d.k, key), Append(d.v, val))

\* set(values), raising TypeError at the first unhashable one
RECURSIVE BuildSet(_, _)
BuildSet(vs, acc) ==
    IF vs = <<>> THEN EvOk(VSet(acc))
    ELSE IF ~Hashable(Head(vs)) THEN EvExc("TypeError")
    ELSE BuildSet(Tail(vs), SetAdd(acc, Head(vs)))

RECURSIVE BuildDict(_, _, _)
BuildDict(ks, vs, acc) ==
    IF ks = <<>> THEN EvOk(acc)
    ELSE IF ~Hashable(Head(ks)) THEN EvExc("TypeError")
    ELSE BuildDict(Tail(ks), Tail(vs), PyDictPut(acc, Head(ks), Head(vs)))

\* the elements of a list, tuple or str
Elements(v) ==
    CASE v.t = "list" -> v.l
      [] v.t = "tuple" -> v.u
      [] v.t = "str" -> [j \in 1..Len(v.s) |-> VStr(<<v.s[j]>>)]

Rebuild(t, elems) ==
    CASE t = "list" -> VList(elems)
      [] t = "tuple" -> VTuple(elems)
      [] t = "str" -> VStr([j \in 1..Len(elems) |-> elems[j].s[1]])

\* seq[lo:hi:st] for bounds that are None or not negative
RECURSIVE SliceFrom(_, _, _, _)
SliceFrom(elems, at, stop, st) ==
    IF at >= stop THEN <<>>
    ELSE <<elems[at + 1]>> \o SliceFrom(elems, at + st, stop, st)

\* value[index]
GetItem(v, idx) ==
    IF v.t \in {"list", "tuple", "str"} THEN
        LET elems == Elements(v)
        IN  IF IsIntLike(idx)
            THEN (IF Num(idx) < Len(elems) THEN EvOk(elems[Num(idx) + 1])
                  ELSE EvExc("IndexError"))
            ELSE IF idx.t = "slice" THEN
                LET part(x) == x.t = "NoneType" \/ IsIntLike(x)
                IN  IF ~(part(idx.lo) /\ part(idx.hi) /\ part(idx.st))
                    THEN EvExc("TypeError")
                    ELSE IF IsIntLike(idx.st) /\ Num(idx.st) = 0 THEN EvExc("ValueError")
                    ELSE LET lo == IF IsIntLike(idx.lo) THEN Num(idx.lo) ELSE 0
                             hi == IF IsIntLike(idx.hi) /\ Num(idx.hi) < Len(elems)
                                   THEN Num(idx.hi) ELSE Len(elems)
                             st == IF IsIntLike(idx.st) THEN Num(idx.st) ELSE 1
                         IN  EvOk(Rebuild(v.t, SliceFrom(elems, lo, hi, st)))
            ELSE EvExc("TypeError")
    ELSE IF v.t = "dict" THEN
        IF ~Hashable(idx) THEN EvExc("TypeError")
        ELSE IF \E j \in 1..Len(v.k) : PyEq(v.k[j], idx)
             THEN EvOk(v.v[CHOOSE j \in 1..Len(v.k) : PyEq(v.k[j], idx)])
        ELSE EvExc("KeyError")
    ELSE EvExc("TypeError")

\* func(*args): only exit and quit are callable among the values a text can
\* name, and calling them raises SystemExit
CallValue(f, args) ==
    IF f.t = "Quitter" /\ Len(args) <= 1 THEN EvExit ELSE EvExc("TypeError")

\* the names bound where eval runs that a text of the model can spell
LookupName(id) ==
    IF id \in {<<"e", "x", "i", "t">>, <<"q", "u", "i", "t">>} THEN EvOk(VQuitter)
    ELSE EvExc("NameError")

RECURSIVE EvalNode(_)
RECURSIVE EvalSeq(_, _)

\* the values of the nodes, left to right, or the first failure
EvalSeq(nodes, acc) ==
    IF nodes = <<>> THEN [r |-> "ok", vs |-> acc]
    ELSE LET x == EvalNode(Head(nodes))
         IN  IF x.r # "ok" THEN x ELSE EvalSeq(Tail(nodes), Append(acc, x.v))

EvalNode(node) ==
    CASE node.n = "Const" -> EvOk(node.v)
      [] node.n = "Absent" -> EvOk(VNone)
      [] node.n = "Name" -> LookupName(node.id)
      [] node.n \in {"List", "Tuple", "Set"} ->
           LET es == EvalSeq(node.elts, <<>>)
           IN  IF es.r # "ok" THEN es
               ELSE IF node.n = "List" THEN EvOk(VList(es.vs))
               ELSE IF node.n = "Tuple" THEN EvOk(VTuple(es.vs))
               ELSE BuildSet(es.vs, <<>>)
      [] node.n = "Dict" ->
           \* a dict display evaluates key, value, key, value, ...
           LET count == Len(node.keys)
               es == EvalSeq([j \in 1..(2 * count) |->
                                 IF j % 2 = 1 THEN node.keys[(j + 1) \div 2]
                                 ELSE node.values[j \div 2]], <<>>)
           IN  IF es.r # "ok" THEN es
               ELSE BuildDict([j \in 1..count |-> es.vs[2 * j - 1]],
                              [j \in 1..count |-> es.vs[2 * j]], VDict(<<>>, <<>>))
      [] node.n = "Slice" ->
           LET es == EvalSeq(<<node.lower, node.upper, node.step>>, <<>>)
           IN  IF es.r # "ok" THEN es
               ELSE EvOk([t |-> "slice", lo |-> es.vs[1], hi |-> es.vs[2],
                          st |-> es.vs[3]])
      [] node.n = "Subscript" ->
           LET es == EvalSeq(<<node.value, node.slice>>, <<>>)
           IN  IF es.r # "ok" THEN es ELSE GetItem(es.vs[1], es.vs[2])
      [] node.n = "Call" ->
           LET es == EvalSeq(<<node.func>> \o node.args, <<>>)
           IN  IF es.r # "ok" THEN es ELSE CallValue(Head(es.vs), Tail(es.vs))

\* eval(text), line 218
PyEval(s) ==
    LET ast == PyParse(s)
    IN  IF ast.ok THEN EvalNode(ast.node) ELSE EvExc("SyntaxError")

RECURSIVE Convert(_)
RECURSIVE ConvertSeq(_, _)
RECURSIVE ConvertSet(_, _)
RECURSIVE ConvertDict(_, _, _)

ConvertSeq(nodes, acc) ==
    IF nodes = <<>> THEN [r |-> "ok", vs |-> acc]
    ELSE LET x == Convert(Head(nodes))
         IN  IF x.r # "ok" THEN x ELSE ConvertSeq(Tail(nodes), Append(acc, x.v))

\* set(map(_convert, elts)): each element is converted, then hashed
ConvertSet(nodes, acc) ==
    IF nodes = <<>> THEN EvOk(VSet(acc))
    ELSE LET x == Convert(Head(nodes))
         IN  IF x.r # "ok" THEN x
             ELSE IF ~Hashable(x.v) THEN EvExc("TypeError")
             ELSE ConvertSet(Tail(nodes), SetAdd(acc, x.v))

\* dict(zip(map(_convert, keys), map(_convert, values)))
ConvertDict(ks, vs, acc) ==
    IF ks = <<>> THEN EvOk(acc)
    ELSE LET key == Convert(Head(ks))
         IN  IF key.r # "ok" THEN key
             ELSE LET val == Convert(Head(vs))
                  IN  IF val.r # "ok" THEN val
                      ELSE IF ~Hashable(key.v) THEN EvExc("TypeError")
                      ELSE ConvertDict(Tail(ks), Tail(vs), PyDictPut(acc, key.v, val.v))

\* ast.literal_eval's _convert: constants and displays of constants, and set()
Convert(node) ==
    CASE node.n = "Const" -> EvOk(node.v)
      [] node.n = "Tuple" ->
           LET es == ConvertSeq(node.elts, <<>>)
           IN  IF es.r # "ok" THEN es ELSE EvOk(VTuple(es.vs))
      [] node.n = "List" ->
           LET es == ConvertSeq(node.elts, <<>>)
           IN  IF es.r # "ok" THEN es ELSE EvOk(VList(es.vs))
      [] node.n = "Set" -> ConvertSet(node.elts, <<>>)
      [] node.n = "Dict" -> ConvertDict(node.keys, node.values, VDict(<<>>, <<>>))
      [] node.n = "Call" /\ node.func = Name(<<"s", "e", "t">>) /\ node.args = <<>> ->
           EvOk(VSet(<<>>))
      [] OTHER -> EvExc("ValueError")

\* ast.literal_eval(text), line 319
LiteralEval(s) ==
    LET ast == PyParse(s)
    IN  IF ast.ok THEN Convert(ast.node) ELSE EvExc("SyntaxError")
-----------------------------------------------------------------------------
(* get_possible_completions and fit *)

\* re.sub(r'[\[\]\{\}\s]+$', '', json_str), line 226
RECURSIVE StripTrailing(_)
StripTrailing(s) ==
    IF s # <<>> /\ (s[Len(s)] \in {"[", "]", "{", "}"} \/ IsSpace(s[Len(s)]))
    THEN StripTrailing(DropLast(s))
    ELSE s

RECURSIVE LStrip(_)
LStrip(s) == IF s # <<>> /\ IsSpace(Head(s)) THEN LStrip(Tail(s)) ELSE s

RECURSIVE RStrip(_)
RStrip(s) == IF s # <<>> /\ IsSpace(s[Len(s)]) THEN RStrip(DropLast(s)) ELSE s

\* str.strip()
Strip(s) == LStrip(RStrip(s))

\* lines 173-177 with '}' kept whatever the text holds
SelectMarksKeepBrace(js) ==
    SelectSeq(<<"}", "]">>, LAMBDA c : c = "}" \/ Contains(js, "["))

\* lines 173-177: ['}', ']'] less the marks whose opener is not in the text
SelectMarks(js) ==
    SelectSeq(<<"}", "]">>,
              LAMBDA c : /\ ~(c = "]" /\ ~Contains(js, "["))
                         /\ ~(c = "}" /\ ~Contains(js, "{")))

IndexOutOfRange == "string index out of range"

\* line 180, for a text that strip() leaves non-empty
EndMark(js) == IF Strip(js)[1] = "[" THEN "]" ELSE "}"

\* a method called on self receives self before its arguments
BoundArgs(given) == given + 1

\* def complete_json_object(json_str, completion_str), line 105
ParamsCompleteJsonObject == 2
\* def find_max_length(data_list), line 243
ParamsFindMaxLength == 1

CompleteJsonObjectArity ==
    "Parser.complete_json_object() takes 2 positional arguments but 3 were given"
FindMaxLengthArity ==
    "Parser.find_max_length() takes 1 positional argument but 2 were given"

\* self.complete_json_object(json_str, completion_str), line 188
CallCompleteJsonObject(js, comp) ==
    IF BoundArgs(2) = ParamsCompleteJsonObject
    THEN CompleteJsonObject(js, comp, 0).out
    ELSE Raise("TypeError", CompleteJsonObjectArity)

\* self.find_max_length(completions), line 194
CallFindMaxLength(l) ==
    IF BoundArgs(1) = ParamsFindMaxLength
    THEN FindMaxLength(l)
    ELSE Raise("TypeError", FindMaxLengthArity)

\* lines 183-191: the completions whose call did not raise
RECURSIVE TryCompletions(_, _)
TryCompletions(js, combs) ==
    IF combs = <<>> THEN <<>>
    ELSE LET r == CallCompleteJsonObject(js, Head(combs))
         IN  (IF r.kind = "return" THEN <<r.value>> ELSE <<>>)
                 \o TryCompletions(js, Tail(combs))

Completed(v) ==
    [status |-> "completed", object_type |-> v.t,
     data |-> [completion |-> v, suggestions |-> <<>>]]
Incomplete(c) ==
    [status |-> "incomplete", object_type |-> "None", data |-> [suggestions |-> c]]
Failed(msg) ==
    [status |-> "failed", object_type |-> "None", data |-> [error_message |-> msg]]

\* json.dumps(v): the JSON text of a value
RECURSIVE RenderJson(_)
RenderJson(v) ==
    CASE v.t = "int" -> IntStr(v.i)
      [] v.t = "bool" -> IF v.b THEN <<"t", "r", "u", "e">>
                         ELSE <<"f", "a", "l", "s", "e">>
      [] v.t = "NoneType" -> <<"n", "u", "l", "l">>
      [] v.t = "str" -> <<"\"">> \o v.s \o <<"\"">>
      [] v.t = "list" ->
           <<"[">> \o Join([j \in 1..Len(v.l) |-> RenderJson(v.l[j])], <<",", " ">>)
                   \o <<"]">>
      [] v.t = "dict" ->
           <<"{">> \o Join([j \in 1..Len(v.k) |->
                              RenderJson(v.k[j]) \o <<":", " ">> \o RenderJson(v.v[j])],
                           <<",", " ">>)
                   \o <<"}">>

MaxFitLen == 3
MaxCompletionLength == 2

FitAlphabet == {"{", "}", "[", "]", "\"", "1", ",", ":", " ", "a"}

\* well-formed values of every JSON kind
JsonValues ==
    {VNone, VBool(TRUE), VBool(FALSE), VInt(1), VInt(12), VStr(<<"a">>),
     VList(<<>>), VList(<<VInt(1), VStr(<<"a">>)>>), VList(<<VBool(TRUE)>>),
     VDict(<<>>, <<>>), VDict(<<VStr(<<"a">>)>>, <<VInt(1)>>),
     VDict(<<VStr(<<"a">>), VStr(<<"b">>)>>, <<VInt(1), VInt(2)>>),
     VDict(<<VStr(<<"a">>)>>, <<VList(<<VInt(1), VNone>>)>>)}

\* '{"a": 1, "b": 2' and other cut texts, and texts that call exit
FitExamples ==
    {DocText, DocText \o <<"}">>,
     <<"[", "1", ",", " ", "2">>,
     <<"{", "\"", "a", "\"", ":", " ", "[", "1", ",">>,
     <<"e", "x", "i", "t">>, <<"e", "x", "i", "t", "(", ")">>,
     <<"[", "e", "x", "i", "t", "(", ")">>}

FitTexts == AllTexts(FitAlphabet, MaxFitLen) \cup FitExamples
                \cup {RenderJson(v) : v \in JsonValues}

FitInit ==
    /\ pc = "fit"
    /\ text0 \in FitTexts
    /\ json_str = text0
    /\ max_completion_length \in 0..MaxCompletionLength
    /\ completions = Idle
    /\ completion_str = Idle /\ attempts = 0
    /\ outcome = NoOutcome
    /\ IdleComb /\ IdleRank /\ IdleExtract

fitRest == <<completion_str, attempts, n, i, k, rankVars, extractVars>>

\* lines 217-223: eval returns a value
FitCompleted ==
    /\ pc = "fit"
    /\ LET r == PyEval(json_str)
       IN  r.r = "ok" /\ outcome' = Return(Completed(r.v))
    /\ pc' = "done"
    /\ UNCHANGED <<json_str, text0, max_completion_length, completions,
                   candidate_marks, should_end_mark, combinations, fitRest>>

\* lines 218, 224: eval raises an Exception
FitEvalFails ==
    /\ pc = "fit"
    /\ PyEval(json_str).r = "exc"
    /\ pc' = "except"
    /\ UNCHANGED <<json_str, text0, max_completion_length, completions, outcome,
                   candidate_marks, should_end_mark, combinations, fitRest>>

\* line 218: eval raises SystemExit, which no handler of fit catches
FitEvalExits ==
    /\ pc = "fit"
    /\ PyEval(json_str).r = "exit"
    /\ pc' = "done"
    /\ outcome' = Raise("SystemExit", "")
    /\ UNCHANGED <<json_str, text0, max_completion_length, completions,
                   candidate_marks, should_end_mark, combinations, fitRest>>

\* lines 226, 173-177
GpcMarks ==
    /\ pc = "except"
    /\ json_str' = StripTrailing(json_str)
    /\ candidate_marks' = SelectMarks(json_str')
    /\ pc' = "end_mark"
    /\ UNCHANGED <<text0, max_completion_length, completions, outcome,
                   should_end_mark, combinations, fitRest>>

\* line 180 on a text of blanks: IndexError, caught at line 236
GpcIndexError ==
    /\ pc = "end_mark" /\ Strip(json_str) = <<>>
    /\ outcome' = Raise("IndexError", IndexOutOfRange)
    /\ pc' = "return"
    /\ UNCHANGED <<json_str, text0, max_completion_length, completions,
                   candidate_marks, should_end_mark, combinations, fitRest>>

\* lines 180-191
GpcTry ==
    /\ pc = "end_mark" /\ Strip(json_str) # <<>>
    /\ should_end_mark' = EndMark(json_str)
    /\ combinations' = GetCombinations(candidate_marks, max_completion_length,
                                       should_end_mark')
    /\ completions' = TryCompletions(json_str, combinations')
    /\ pc' = "rank"
    /\ UNCHANGED <<json_str, text0, max_completion_length, outcome,
                   candidate_marks, fitRest>>

\* line 194
GpcRank ==
    /\ pc = "rank"
    /\ outcome' = CallFindMaxLength(completions)
    /\ pc' = "return"
    /\ UNCHANGED <<json_str, text0, max_completion_length, completions,
                   candidate_marks, should_end_mark, combinations, fitRest>>

\* lines 231-241
FitReturn ==
    /\ pc = "return"
    /\ outcome' = IF outcome.kind = "return"
                  THEN Return(Incomplete(outcome.value))
                  ELSE Return(Failed(outcome.msg))
    /\ pc' = "done"
    /\ UNCHANGED <<json_str, text0, max_completion_length, completions,
                   candidate_marks, should_end_mark, combinations, fitRest>>

FitNext ==
    \/ FitCompleted \/ FitEvalFails \/ FitEvalExits
    \/ GpcMarks \/ GpcIndexError \/ GpcTry \/ GpcRank \/ FitReturn

SpecFit == FitInit /\ [][FitNext]_vars

-----------------------------------------------------------------------------
(* Claims about fit *)

FitStatuses == {"completed", "incomplete", "failed"}

NoBrackets(s) == ~Contains(s, "{") /\ ~Contains(s, "[")

\* the closing strings of length 1..m
Closings(m) == AllTexts(Marks, m) \ {<<>>}

\* a non-empty prefix of the stripped text followed by a closing string
RepairTexts(text, m) ==
    LET s == StripTrailing(text)
    IN  {Prefix(s, j) \o c : j \in 1..Len(s), c \in Closings(m)}

\* the values of the repairs that parse
Repairs(text, m) ==
    {JsonLoads(t).v : t \in {u \in RepairTexts(text, m) : JsonLoads(u).ok}}

\* the ranked candidates of an 'incomplete' result
Suggested(result) ==
    LET l == result.data.suggestions.suggestions
    IN  {l[j] : j \in DOMAIN l}

\* C1: fit always returns to its caller, with status 'completed', 'incomplete'
\* or 'failed', a 'failed' result carrying an error message; no error of the
\* evaluation or of the search leaves fit.
C1_FitNeverPropagates ==
    pc = "done" =>
        /\ outcome.kind = "return"
        /\ outcome.value.status \in FitStatuses
        /\ outcome.value.status = "failed" =>
               "error_message" \in DOMAIN outcome.value.data

\* C2: when the evaluation of the text fails and some non-empty prefix of the
\* stripped text followed by a closing string of length 1..max_completion_length
\* parses, fit returns 'incomplete' and the value of such a repair is among
\* its suggestions.
C2_RepairIsSuggested ==
    (/\ pc = "done"
     /\ PyEval(text0).r = "exc"
     /\ Repairs(text0, max_completion_length) # {}) =>
        /\ outcome.kind = "return"
        /\ outcome.value.status = "incomplete"
        /\ Repairs(text0, max_completion_length) \cap Suggested(outcome.value) # {}

\* C3: fit of the JSON text of a well-formed value v returns 'completed' with
\* completion v and no suggestions, and never enters the search.
C3_ValidInputCompleted ==
    \A v \in JsonValues :
        (pc = "done" /\ text0 = RenderJson(v)) =>
            /\ outcome = Return(Completed(v))
            /\ json_str = text0
            /\ candidate_marks = Idle /\ combinations = Idle /\ completions = Idle

C6_WitnessEmpty ==
    /\ pc = "done" /\ text0 = <<>>
    /\ outcome = Return(Failed(IndexOutOfRange))

\* '{"a": 1, "b": 2' has a repair and came back from fit
C2_Witness ==
    /\ pc = "done" /\ text0 = DocText /\ max_completion_length >= 1
    /\ VDict(<<VStr(<<"a">>), VStr(<<"b">>)>>, <<VInt(1), VInt(2)>>)
           \in Repairs(text0, max_completion_length)

\* the text null came back from fit
C3_Witness ==
    pc = "done" /\ text0 = RenderJson(VNone)

\* the text exit() went through fit
C1_Witness ==
    pc = "done" /\ text0 = <<"e", "x", "i", "t", "(", ")">>

-----------------------------------------------------------------------------
(* extract_complete_objects *)

\* closing = {"}": "{", "]": "["}, line 295
closing == [c \in {"}", "]"} |-> IF c = "}" THEN "{" ELSE "["]

\* opening = {"{": 0, "[": 0}, line 294
NoneOpen == [b \in {"{", "["} |-> 0]

\* (?<!\\) before position p
NotEscaped(s, p) == p = 1 \/ s[p - 1] # "\\"

\* the first position at or after p that holds one of chars, or 0
RECURSIVE FirstOf(_, _, _)
FirstOf(s, p, chars) ==
    IF p > Len(s) THEN 0
    ELSE IF s[p] \in chars THEN p
    ELSE FirstOf(s, p + 1, chars)

\* object_regex tried at position p: the position of the last character of
\* the match, or 0.  \[[^][]*?(?<!\\)\] runs from '[' to the first ']' with no
\* '[' between, and that ']' must not follow a backslash; \{[^{}]*\} runs from
\* '{' to the first '}' with no '{' between.
MatchAt(s, p) ==
    IF ~NotEscaped(s, p) THEN 0
    ELSE IF s[p] = "[" THEN
        LET q == FirstOf(s, p + 1, {"[", "]"})
        IN  IF q # 0 /\ s[q] = "]" /\ s[q - 1] # "\\" THEN q ELSE 0
    ELSE IF s[p] = "{" THEN
        LET q == FirstOf(s, p + 1, {"{", "}"})
        IN  IF q # 0 /\ s[q] = "}" THEN q ELSE 0
    ELSE 0

\* the position of the first match that starts at or after p, or 0
RECURSIVE NextMatch(_, _)
NextMatch(s, p) ==
    IF p > Len(s) THEN 0
    ELSE IF MatchAt(s, p) # 0 THEN p
    ELSE NextMatch(s, p + 1)

\* re.finditer(object_regex, string) from position p on: the offsets
\* match.start(), match.end() of every match
RECURSIVE FindIter(_, _)
FindIter(s, p) ==
    LET m == NextMatch(s, p)
    IN  IF m = 0 THEN <<>>
        ELSE <<[start |-> m - 1, end |-> MatchAt(s, m)]>>
                 \o FindIter(s, MatchAt(s, m) + 1)

\* line 307 with every counter counted, zero or not
AllCounters(o) == Cardinality(DOMAIN o)

\* len([bracket for bracket in opening.values() if bracket != 0]), line 307
NonZeroCounters(o) == Cardinality({b \in DOMAIN o : o[b] # 0})

\* line 314
IncompleteObject(span) ==
    [kind |-> "Error: Incomplete object at end of string", text |-> span]
\* line 324; the text of the exception is left out
EvaluationError(object_string, exc) ==
    [kind |-> "Error evaluating object string", text |-> object_string,
     exc |-> exc]

MaxExtractLen == 4

\* brackets with quotes and backslashes, and brackets with numbers
QuoteAlphabet == {"{", "}", "[", "]", "\"", "\\", ","}
NumberAlphabet == {"{", "}", "[", "]", "1", ","}

ExtractExamples ==
    {<<"{", "\"", "a", "\"", ":", "1", "}", "{", "\"", "b", "\"", ":", "2", "}">>,
     <<"{", "\"", "a", "\"", ":", "1">>,
     <<"[", "\"", "]", "\"", "]">>,
     <<"[", "n", "u", "l", "l", "]">>,
     <<"[", "1", "]", " ", "{", "[", "1", "]", "}", "{">>,
     <<"x", "[", "1", ",", " ", "2", "]", "y", "{", "}", "[">>}

ExtractTexts ==
    AllTexts(QuoteAlphabet, MaxExtractLen) \cup AllTexts(NumberAlphabet, MaxExtractLen)
        \cup ExtractExamples

\* lines 293-297
ExtractInit ==
    /\ pc = "scan"
    /\ string \in ExtractTexts
    /\ scan = 1
    /\ object_strings = <<>>
    /\ opening = NoneOpen
    /\ stack = <<>>
    /\ start = 0
    /\ objects = <<>> /\ evaluated = 0
    /\ diagnostics = <<>> /\ matches = <<>>
    /\ outcome = NoOutcome
    /\ IdleCjo /\ IdleComb /\ IdleRank /\ IdleFit

extractRest == <<cjoVars, combVars, rankVars, fitVars>>

\* lines 299-311: one turn of the loop over the matches
ExtractMatch ==
    /\ pc = "scan"
    /\ NextMatch(string, scan) # 0
    /\ LET p == NextMatch(string, scan)
           q == MatchAt(string, p)
           group == SubSeq(string, p, q)
           start1 == IF Len(stack) = 0 THEN p - 1 ELSE start
           stack1 == Append(stack, group)
           closes == group[Len(group)] \in DOMAIN closing
           opening_bracket == closing[group[Len(group)]]
           opening1 == [opening EXCEPT ![opening_bracket] = @ + 1]
           emit == closes /\ opening1[opening_bracket] = NonZeroCounters(opening1)
       IN  /\ start' = start1
           /\ object_strings' =
                  IF emit THEN Append(object_strings, SubSeq(string, start1 + 1, q))
                  ELSE object_strings
           /\ stack' = IF emit THEN <<>> ELSE stack1
           /\ opening' = IF emit THEN NoneOpen
                         ELSE IF closes THEN opening1 ELSE opening
           /\ matches' = Append(matches, [start |-> p - 1, end |-> q])
           /\ scan' = q + 1
    /\ UNCHANGED <<pc, string, objects, evaluated, diagnostics, outcome, extractRest>>

\* lines 313-314: no match is left
ExtractScanEnd ==
    /\ pc = "scan"
    /\ NextMatch(string, scan) = 0
    /\ diagnostics' = IF Len(stack) > 0
                      THEN Append(diagnostics, IncompleteObject(stack[Len(stack)]))
                      ELSE diagnostics
    /\ pc' = "eval"
    /\ UNCHANGED <<string, scan, stack, opening, start, object_strings, objects,
                   evaluated, matches, outcome, extractRest>>

\* lines 319-321: literal_eval gives a value
ExtractEvalAppend ==
    /\ pc = "eval" /\ evaluated < Len(object_strings)
    /\ LET r == LiteralEval(object_strings[evaluated + 1])
       IN  r.r = "ok" /\ objects' = Append(objects, r.v)
    /\ evaluated' = evaluated + 1
    /\ UNCHANGED <<pc, string, scan, stack, opening, start, object_strings,
                   diagnostics, matches, outcome, extractRest>>

\* lines 322-325: ValueError and SyntaxError are printed and passed over
ExtractEvalSkip ==
    /\ pc = "eval" /\ evaluated < Len(object_strings)
    /\ LET r == LiteralEval(object_strings[evaluated + 1])
       IN  /\ r.r = "exc" /\ r.exc \in {"ValueError", "SyntaxError"}
           /\ diagnostics' = Append(diagnostics,
                  EvaluationError(object_strings[evaluated + 1], r.exc))
    /\ evaluated' = evaluated + 1
    /\ UNCHANGED <<pc, string, scan, stack, opening, start, object_strings,
                   objects, matches, outcome, extractRest>>

\* line 319: any other exception of literal_eval leaves the function
ExtractEvalRaise ==
    /\ pc = "eval" /\ evaluated < Len(object_strings)
    /\ LET r == LiteralEval(object_strings[evaluated + 1])
       IN  /\ r.r = "exc" /\ r.exc \notin {"ValueError", "SyntaxError"}
           /\ outcome' = Raise(r.exc, object_strings[evaluated + 1])
    /\ pc' = "done"
    /\ UNCHANGED <<string, scan, stack, opening, start, object_strings, objects,
                   evaluated, diagnostics, matches, extractRest>>

\* line 327
ExtractReturn ==
    /\ pc = "eval" /\ evaluated = Len(object_strings)
    /\ outcome' = Return(objects)
    /\ pc' = "done"
    /\ UNCHANGED <<string, scan, stack, opening, start, object_strings, objects,
                   evaluated, diagnostics, matches, extractRest>>

ExtractNext ==
    \/ ExtractMatch \/ ExtractScanEnd
    \/ ExtractEvalAppend \/ ExtractEvalSkip \/ ExtractEvalRaise \/ ExtractReturn

SpecExtract == ExtractInit /\ [][ExtractNext]_vars

-----------------------------------------------------------------------------
(* Claims about extract_complete_objects *)

SpanOf(s, m) == SubSeq(s, m.start + 1, m.end)

\* a list or an object none of whose elements is a container
Flat(v) ==
    LET scalar(x) == x.t \in {"int", "str"}
    IN  \/ v.t = "list" /\ \A j \in 1..Len(v.l) : scalar(v.l[j])
        \/ v.t = "dict" /\ \A j \in 1..Len(v.v) : v.k[j].t = "str" /\ scalar(v.v[j])

\* a complete, non-nested object or array literal: JSON and Python read the
\* same flat value from it
IsFlatLiteral(t) ==
    /\ t # <<>> /\ t[1] \in {"{", "["} /\ ~Contains(t, "\\")
    /\ JsonLoads(t).ok
    /\ LiteralEval(t) = EvOk(JsonLoads(t).v)
    /\ Flat(JsonLoads(t).v)

\* the ways to cut s into flat literals, each as the sequence of their values
RECURSIVE Splittings(_)
Splittings(s) ==
    IF s = <<>> THEN {<<>>}
    ELSE UNION {{<<LiteralEval(Prefix(s, j)).v>> \o rest :
                     rest \in Splittings(SubSeq(s, j + 1, Len(s)))} :
                j \in {m \in 1..Len(s) : IsFlatLiteral(Prefix(s, m))}}

\* the text ends after a '{' or '[' that stands outside any string and that no
\* later bracket closes
DanglingOpen(s) ==
    /\ ~Contains(s, "\\") /\ ~Contains(s, "'")
    /\ \E p \in 1..Len(s) :
        /\ s[p] \in {"{", "["}
        /\ \A q \in (p + 1)..Len(s) : s[q] \notin {"{", "}", "[", "]"}
        /\ Cardinality({q \in 1..(p - 1) : s[q] = "\""}) % 2 = 0

IsIncompleteObject(d) == d.kind = "Error: Incomplete object at end of string"

\* C7: on a text that is a concatenation of k >= 0 complete non-nested object
\* or array literals, extract_complete_objects returns exactly the k values,
\* in the order of the text.
C7_ConcatenationExtracted ==
    pc = "done" => \A values \in Splittings(string) : outcome = Return(values)

\* two literals side by side came back as two values
C7_Witness ==
    /\ pc = "done" /\ Len(objects) = 2
    /\ <<objects[1], objects[2]>> \in Splittings(string)
    /\ outcome = Return(objects)

\* C8: on a text that ends while a bracket is open, extract_complete_objects
\* returns without an error, leaves the dangling span out of its result and
\* prints the 'Incomplete object at end of string' line.
C8_DanglingReported ==
    (pc = "done" /\ DanglingOpen(string)) =>
        /\ outcome.kind = "return"
        /\ \A j \in 1..Len(object_strings) :
               ~DanglingOpen(object_strings[j])
        /\ \E j \in 1..Len(diagnostics) : IsIncompleteObject(diagnostics[j])

\* '{"a":1' went through extract_complete_objects
C8_Witness ==
    /\ pc = "done"
    /\ string = <<"{", "\"", "a", "\"", ":", "1">>
    /\ DanglingOpen(string)

\* C10: once a match has been processed the stack is empty and both counters
\* are zero; the spans appended so far are the matches taken so far, one span
\* per match from that match's own start to its end, and at the end of the
\* scan they are the matches of finditer over the whole text.
C10_EveryMatchEmitted ==
    /\ stack = <<>>
    /\ opening = NoneOpen
    /\ Len(object_strings) = Len(matches)
    /\ \A j \in 1..Len(matches) :
        /\ object_strings[j] = SpanOf(string, matches[j])
        /\ MatchAt(string, matches[j].start + 1) = matches[j].end
        /\ j > 1 => matches[j - 1].end <= matches[j].start
    /\ matches # <<>> => start = matches[Len(matches)].start
    /\ matches = SubSeq(FindIter(string, 1), 1, Len(matches))
    /\ pc # "scan" => matches = FindIter(string, 1)

\* a text with two matches was scanned to its end
C10_Witness ==
    /\ pc = "eval" /\ Len(matches) = 2 /\ Len(object_strings) = 2
    /\ matches[2].end = Len(string)
    /\ stack = <<>>

=============================================================================
